---- MODULE Spec2Model ----
(***************************************************************************)
(* Model of the data-access layer of the commercial-management application *)
(* (src/sidou2/database/database.py), its SQLite schema and triggers, the  *)
(* validators (src/sidou2/utils/validators.py) and the error decorator     *)
(* (src/sidou2/utils/error_handler.py).                                    *)
(*                                                                         *)
(* Numbers.  Python floats and SQLite INTEGER/REAL values are modelled as  *)
(* fixed-point integers with one binary fractional digit: the model value  *)
(* n stands for n / Unit.  Quantities, stock levels and amounts carry this *)
(* scale; prices are whole numbers, so quantity * price has the scale of   *)
(* the quantity.  None is modelled by the sentinels NoneNum (where a       *)
(* number or an id is expected) and NoneStr (where a string is expected).  *)
(***************************************************************************)
EXTENDS Integers, Sequences, FiniteSets, TLC

\* ------------------------------------------------------------------ bounds
MaxProducts == 2
MaxCustomers == 1
MaxPurchases == 1
MaxSales == 1
MaxItems == 3
MaxContacts == 2
MaxDigits == 16
MaxConnections == 2

\* --------------------------------------------------------- representation
Unit == 2
NoneNum == 0 - 1000
NoneStr == "<None>"

\* -------------------------------------------------------------- validators
\* validate_required: `not value` or a whitespace-only string.
MissingId(v) == v = NoneNum \/ v = 0
MissingStr(s) == s = NoneStr \/ s = "" \/ s = " "

\* validate_numeric(value, field, min_value): float(value), then the range
\* test.  The result is the float, or the failure raised.
validate_numeric(value, min_value) ==
    IF value = NoneNum THEN [ok |-> FALSE, value |-> NoneNum]
    ELSE IF value < min_value * Unit THEN [ok |-> FALSE, value |-> value]
    ELSE [ok |-> TRUE, value |-> value]

\* validate_integer(value, field, min_value): float(value), int(float), the
\* integrality test, then the range test.
validate_integer(value, min_value) ==
    IF value = NoneNum THEN [ok |-> FALSE, value |-> NoneNum]
    ELSE IF value % Unit # 0 THEN [ok |-> FALSE, value |-> value]
    ELSE IF value < min_value * Unit THEN [ok |-> FALSE, value |-> value]
    ELSE [ok |-> TRUE, value |-> value]

\* validate_product_data(name, purchase_price, selling_price, quantity)
validate_product_data(name, purchase_price, selling_price, quantity) ==
    /\ ~MissingStr(name)
    /\ validate_numeric(purchase_price, 0).ok
    /\ validate_numeric(selling_price, 0).ok
    /\ (quantity # NoneNum => validate_integer(quantity, 0).ok)

\* Strings that are inspected character by character are sequences of
\* one-character strings; NoneChars stands for None.
NoneChars == <<NoneStr>>
Whitespace == {" ", "\t"}
AsciiDigits == {"0", "1", "2", "3", "4", "5", "6", "7", "8", "9"}
PhoneMinDigits == 8
PhoneMaxDigits == 15

\* Mutant: the separator class without the parentheses.
clean_phone_keeps_parentheses(phone) ==
    SelectSeq(phone, LAMBDA c : c \notin Whitespace \cup {"-"})

\* clean_phone = re.sub(r"[\s\-\(\)]", "", phone)
clean_phone(phone) ==
    SelectSeq(phone, LAMBDA c : c \notin Whitespace \cup {"-", "(", ")"})

\* Mutant: the pattern without its upper limit, ^\+?[0-9]{8,}$.
phone_pattern_unlimited(s) ==
    LET digits == IF s # << >> /\ Head(s) = "+" THEN Tail(s) ELSE s IN
    /\ Len(digits) >= PhoneMinDigits
    /\ \A i \in 1..Len(digits) : digits[i] \in AsciiDigits

\* phone_pattern = re.compile(r"^\+?[0-9]{8,15}$"), matched against s.
phone_pattern(s) ==
    LET digits == IF s # << >> /\ Head(s) = "+" THEN Tail(s) ELSE s IN
    /\ Len(digits) >= PhoneMinDigits
    /\ Len(digits) <= PhoneMaxDigits
    /\ \A i \in 1..Len(digits) : digits[i] \in AsciiDigits

\* validate_phone(phone): `not phone or phone.strip() == ""` returns the
\* input; otherwise the cleaned string is matched and the ORIGINAL string
\* is returned, or the validation failure raised.
validate_phone(phone) ==
    IF phone = NoneChars \/ (\A i \in 1..Len(phone) : phone[i] \in Whitespace)
    THEN [ok |-> TRUE, value |-> phone]
    ELSE IF phone_pattern(clean_phone(phone)) THEN [ok |-> TRUE, value |-> phone]
    ELSE [ok |-> FALSE, value |-> NoneChars]

\* The characters of the phone strings given to the customer operations.
Chars(s) ==
    CASE s = NoneStr -> NoneChars
      [] s = "" -> << >>
      [] s = " " -> <<" ">>
      [] s = "abc" -> <<"a", "b", "c">>
      [] s = "0555123456" -> <<"0", "5", "5", "5", "1", "2", "3", "4", "5", "6">>
      [] s = "0555-123-456" -> <<"0", "5", "5", "5", "-", "1", "2", "3", "-", "4", "5", "6">>

\* The phone strings of the customer operations that validate_phone accepts.
ValidPhones ==
    {s \in {"abc", "0555123456", "0555-123-456"} : validate_phone(Chars(s)).ok}

\* validate_email: empty or local@domain.tld.
ValidEmails == {"a@b.dz"}
validate_email(email) == email \in {NoneStr, "", " "} \/ email \in ValidEmails

\* validate_customer_data(name, phone, email): phone and email are checked
\* only when truthy (`if phone:`), so None and "" skip the format test.
validate_customer_data(name, phone, email) ==
    /\ ~MissingStr(name)
    /\ (phone \notin {NoneStr, ""} => validate_phone(Chars(phone)).ok)
    /\ (email \notin {NoneStr, ""} => validate_email(email))

\* ------------------------------------------------------------- exceptions
NoExc == [type |-> "none", msg |-> ""]
ValidationError == [type |-> "ValidationError", msg |-> "validation"]
IntegrityError(text) == [type |-> "IntegrityError", msg |-> text]
OperationalError == [type |-> "OperationalError", msg |-> "disk I/O error"]
DatabaseError(text) == [type |-> "DatabaseError", msg |-> text]
AttributeError == [type |-> "AttributeError", msg |-> "'NoneType' object has no attribute 'get'"]

\* handle_db_error: the decorator around every data-access function.  The
\* argument is the exception leaving the decorated function, the result
\* the exception the caller receives.
handle_db_error(e) ==
    IF e.type = "IntegrityError" THEN
        IF e.msg = "UNIQUE constraint failed" THEN DatabaseError("duplicate-entry")
        ELSE IF e.msg = "FOREIGN KEY constraint failed" THEN DatabaseError("referenced-elsewhere")
        ELSE IF e.msg = "CHECK constraint failed" THEN DatabaseError("constraint-violated")
        ELSE DatabaseError("integrity")
    ELSE IF e.type = "OperationalError" THEN DatabaseError("database-error")
    ELSE e

\* ------------------------------------------------------ tables and schema
EmptyTable == [i \in {} |-> 0]
Put(t, id, row) == [i \in DOMAIN t \cup {id} |-> IF i = id THEN row ELSE t[i]]
Drop(t, ids) == [i \in DOMAIN t \ ids |-> t[i]]

\* The database file after initialize_database on no file: five empty
\* tables, the two triggers; seq is sqlite_sequence, the AUTOINCREMENT
\* counter of each table.
EmptyDb ==
    [Customers |-> EmptyTable, Products |-> EmptyTable, Purchases |-> EmptyTable,
     Sales |-> EmptyTable, SaleItems |-> EmptyTable,
     seq |-> [Customers |-> 0, Products |-> 0, Purchases |-> 0, Sales |-> 0, SaleItems |-> 0],
     triggers |-> {"increase_stock_on_purchase", "decrease_stock_on_sale"}]

\* The result of one SQL statement: the exception it raised (NoExc when it
\* ran) and the database it leaves.  A failing statement leaves the
\* database as it found it (SQLite backs the statement out).
Ran(d) == [exc |-> NoExc, db |-> d]
Failed(e, d) == [exc |-> e, db |-> d]

\* Mutant: the Products table without its CHECK(quantity_in_stock >= 0).
CheckStockAbsent(products) == TRUE

\* CHECK(quantity_in_stock >= 0) of the Products table, over all rows.
CheckStock(products) == \A p \in DOMAIN products : products[p].quantity_in_stock >= 0

\* Mutant: the purchase trigger was never created.
increase_stock_trigger_missing(products, new) == products

\* Mutant: the purchase trigger's UPDATE has no WHERE clause.
increase_stock_without_where(products, new) ==
    [p \in DOMAIN products |->
        [products[p] EXCEPT !.quantity_in_stock = @ + new.quantity]]

\* Trigger increase_stock_on_purchase: AFTER INSERT ON Purchases.
increase_stock_on_purchase(products, new) ==
    [p \in DOMAIN products |->
        IF p = new.product_id
        THEN [products[p] EXCEPT !.quantity_in_stock = @ + new.quantity]
        ELSE products[p]]

\* Mutant: the sale trigger's UPDATE has no WHERE clause.
decrease_stock_without_where(products, new) ==
    [p \in DOMAIN products |->
        [products[p] EXCEPT !.quantity_in_stock = @ - new.quantity]]

\* Trigger decrease_stock_on_sale: AFTER INSERT ON SaleItems.
decrease_stock_on_sale(products, new) ==
    [p \in DOMAIN products |->
        IF p = new.product_id
        THEN [products[p] EXCEPT !.quantity_in_stock = @ - new.quantity]
        ELSE products[p]]

\* The next AUTOINCREMENT id of a table.
NextId(d, table) == d.seq[table] + 1

\* Mutant: a connection on which the PRAGMA was not executed; SQLite then
\* neither tests foreign keys nor runs their ON DELETE actions.
get_db_connection_without_pragma == [row_factory |-> "Row", foreign_keys |-> FALSE]

\* get_db_connection: sqlite3.connect, the row factory, and PRAGMA
\* foreign_keys = ON executed before the connection is handed out.  Every
\* operation takes its connection from here.
get_db_connection == [row_factory |-> "Row", foreign_keys |-> TRUE]

\* INSERT INTO Products (...).  Constraints in the order SQLite tests them:
\* NOT NULL, CHECK, UNIQUE(name).
SqlInsertProduct(d, row) ==
    IF row.quantity_in_stock = NoneNum
    THEN Failed(IntegrityError("NOT NULL constraint failed"), d)
    ELSE IF row.purchase_price < 0 \/ row.selling_price < 0 \/ row.quantity_in_stock < 0
    THEN Failed(IntegrityError("CHECK constraint failed"), d)
    ELSE IF \E p \in DOMAIN d.Products : d.Products[p].name = row.name
    THEN Failed(IntegrityError("UNIQUE constraint failed"), d)
    ELSE LET id == NextId(d, "Products") IN
         Ran([d EXCEPT !.Products = Put(@, id, row), !.seq.Products = id])

\* Mutant: the UPDATE also sets quantity_in_stock, to the default 0 of the
\* validated quantity.
SqlUpdateProductWithStock(d, id, name, category, purchase_price, selling_price) ==
    IF id \notin DOMAIN d.Products THEN Ran(d)
    ELSE IF \E p \in DOMAIN d.Products \ {id} : d.Products[p].name = name
    THEN Failed(IntegrityError("UNIQUE constraint failed"), d)
    ELSE Ran([d EXCEPT !.Products[id] =
                [@ EXCEPT !.name = name, !.category = category,
                          !.purchase_price = purchase_price,
                          !.selling_price = selling_price,
                          !.quantity_in_stock = 0]])

\* UPDATE Products SET name, description, category, purchase_price,
\* selling_price WHERE id = ?.  The quantity_in_stock column is not set.
SqlUpdateProduct(d, id, name, category, purchase_price, selling_price) ==
    IF id \notin DOMAIN d.Products THEN Ran(d)
    ELSE IF purchase_price < 0 \/ selling_price < 0
    THEN Failed(IntegrityError("CHECK constraint failed"), d)
    ELSE IF \E p \in DOMAIN d.Products \ {id} : d.Products[p].name = name
    THEN Failed(IntegrityError("UNIQUE constraint failed"), d)
    ELSE Ran([d EXCEPT !.Products[id] =
                [@ EXCEPT !.name = name, !.category = category,
                          !.purchase_price = purchase_price,
                          !.selling_price = selling_price]])

\* Mutant: SaleItems.product_id declared ON DELETE CASCADE.
SqlDeleteProductCascade(d, id) ==
    IF id \notin DOMAIN d.Products THEN Ran(d)
    ELSE Ran([d EXCEPT
                !.Products = Drop(@, {id}),
                !.Purchases = Drop(@, {u \in DOMAIN @ : @[u].product_id = id}),
                !.SaleItems = Drop(@, {u \in DOMAIN @ : @[u].product_id = id})])

\* Mutant: Purchases.product_id declared ON DELETE RESTRICT as well.
SqlDeleteProductRestrict(d, id) ==
    IF id \notin DOMAIN d.Products THEN Ran(d)
    ELSE IF \/ \E i \in DOMAIN d.SaleItems : d.SaleItems[i].product_id = id
            \/ \E u \in DOMAIN d.Purchases : d.Purchases[u].product_id = id
    THEN Failed(IntegrityError("FOREIGN KEY constraint failed"), d)
    ELSE Ran([d EXCEPT !.Products = Drop(@, {id})])

\* DELETE FROM Products WHERE id = ?.  SaleItems.product_id is ON DELETE
\* RESTRICT, Purchases.product_id is ON DELETE CASCADE.
SqlDeleteProduct(d, id) ==
    IF id \notin DOMAIN d.Products THEN Ran(d)
    ELSE IF ~get_db_connection.foreign_keys THEN Ran([d EXCEPT !.Products = Drop(@, {id})])
    ELSE IF \E i \in DOMAIN d.SaleItems : d.SaleItems[i].product_id = id
    THEN Failed(IntegrityError("FOREIGN KEY constraint failed"), d)
    ELSE Ran([d EXCEPT
                !.Products = Drop(@, {id}),
                !.Purchases = Drop(@, {u \in DOMAIN @ : @[u].product_id = id})])

\* INSERT INTO Purchases (...): the column checks, the row, the trigger
\* (whose UPDATE is subject to the Products checks), then the foreign key.
SqlInsertPurchase(d, row) ==
    IF row.quantity <= 0 \/ row.cost_per_unit < 0
    THEN Failed(IntegrityError("CHECK constraint failed"), d)
    ELSE LET products == IF "increase_stock_on_purchase" \in d.triggers
                         THEN increase_stock_on_purchase(d.Products, row)
                         ELSE d.Products
             id == NextId(d, "Purchases")
         IN  IF ~CheckStock(products)
             THEN Failed(IntegrityError("CHECK constraint failed"), d)
             ELSE IF get_db_connection.foreign_keys /\ row.product_id \notin DOMAIN d.Products
             THEN Failed(IntegrityError("FOREIGN KEY constraint failed"), d)
             ELSE Ran([d EXCEPT !.Purchases = Put(@, id, row),
                                !.Products = products,
                                !.seq.Purchases = id])

\* Mutant: the INSERT INTO Sales does not carry the computed total.
SqlInsertSaleWithoutTotal(d, customer_id, total_amount) ==
    IF customer_id # NoneNum /\ customer_id \notin DOMAIN d.Customers
    THEN Failed(IntegrityError("FOREIGN KEY constraint failed"), d)
    ELSE LET id == NextId(d, "Sales") IN
         Ran([d EXCEPT !.Sales = Put(@, id, [customer_id |-> customer_id, total_amount |-> 0]),
                       !.seq.Sales = id])

\* INSERT INTO Sales (customer_id, sale_date, total_amount).  A NULL
\* customer_id satisfies the foreign key.
SqlInsertSale(d, customer_id, total_amount) ==
    IF total_amount < 0
    THEN Failed(IntegrityError("CHECK constraint failed"), d)
    ELSE IF /\ get_db_connection.foreign_keys
            /\ customer_id # NoneNum /\ customer_id \notin DOMAIN d.Customers
    THEN Failed(IntegrityError("FOREIGN KEY constraint failed"), d)
    ELSE LET id == NextId(d, "Sales") IN
         Ran([d EXCEPT !.Sales = Put(@, id, [customer_id |-> customer_id,
                                              total_amount |-> total_amount]),
                       !.seq.Sales = id])

\* INSERT INTO SaleItems (sale_id, product_id, quantity, price_at_sale).
SqlInsertSaleItem(d, row) ==
    IF row.quantity <= 0 \/ row.price_at_sale < 0
    THEN Failed(IntegrityError("CHECK constraint failed"), d)
    ELSE LET products == IF "decrease_stock_on_sale" \in d.triggers
                         THEN decrease_stock_on_sale(d.Products, row)
                         ELSE d.Products
             id == NextId(d, "SaleItems")
         IN  IF ~CheckStock(products)
             THEN Failed(IntegrityError("CHECK constraint failed"), d)
             ELSE IF /\ get_db_connection.foreign_keys
                     /\ (row.product_id \notin DOMAIN d.Products \/ row.sale_id \notin DOMAIN d.Sales)
             THEN Failed(IntegrityError("FOREIGN KEY constraint failed"), d)
             ELSE Ran([d EXCEPT !.SaleItems = Put(@, id, row),
                                !.Products = products,
                                !.seq.SaleItems = id])

\* Mutant: the email column of Customers is not declared UNIQUE.
CustomerClashPhoneOnly(d, except, phone, email) ==
    \E c \in DOMAIN d.Customers \ except :
        phone # NoneStr /\ d.Customers[c].phone = phone

\* UNIQUE(phone), UNIQUE(email) of Customers: NULLs never collide, equal
\* non-NULL values (the empty string included) do.
CustomerClash(d, except, phone, email) ==
    \E c \in DOMAIN d.Customers \ except :
        \/ (phone # NoneStr /\ d.Customers[c].phone = phone)
        \/ (email # NoneStr /\ d.Customers[c].email = email)

\* INSERT INTO Customers (name, address, phone, email).
SqlInsertCustomer(d, row) ==
    IF CustomerClash(d, {}, row.phone, row.email)
    THEN Failed(IntegrityError("UNIQUE constraint failed"), d)
    ELSE LET id == NextId(d, "Customers") IN
         Ran([d EXCEPT !.Customers = Put(@, id, row), !.seq.Customers = id])

\* UPDATE Customers SET name, address, phone, email WHERE id = ?.
SqlUpdateCustomer(d, id, row) ==
    IF id \notin DOMAIN d.Customers THEN Ran(d)
    ELSE IF CustomerClash(d, {id}, row.phone, row.email)
    THEN Failed(IntegrityError("UNIQUE constraint failed"), d)
    ELSE Ran([d EXCEPT !.Customers[id] = row])

\* Mutant: Sales.customer_id declared ON DELETE CASCADE.
SqlDeleteCustomerCascade(d, id) ==
    IF id \notin DOMAIN d.Customers THEN Ran(d)
    ELSE Ran([d EXCEPT
                !.Customers = Drop(@, {id}),
                !.Sales = Drop(@, {s \in DOMAIN @ : @[s].customer_id = id})])

\* DELETE FROM Customers WHERE id = ?.  Sales.customer_id is ON DELETE SET
\* NULL.
SqlDeleteCustomer(d, id) ==
    IF id \notin DOMAIN d.Customers THEN Ran(d)
    ELSE IF ~get_db_connection.foreign_keys THEN Ran([d EXCEPT !.Customers = Drop(@, {id})])
    ELSE Ran([d EXCEPT
                !.Customers = Drop(@, {id}),
                !.Sales = [s \in DOMAIN @ |->
                              IF @[s].customer_id = id
                              THEN [@[s] EXCEPT !.customer_id = NoneNum]
                              ELSE @[s]]])

\* ------------------------------------------------ connections, transactions
\* conn.commit(): the statements run since the transaction began persist.
Commit(snapshot, work) == work

\* Mutant: the except clause does not undo the statements already run.
RollbackKeepsWork(snapshot, work) == work

\* conn.rollback(): the database returns to the state at BEGIN.
Rollback(snapshot, work) == snapshot

\* conn.close() with a transaction still open: SQLite discards it.
CloseUncommitted(snapshot, work) == snapshot

\* What one data-access call did: the database it leaves, the exception the
\* caller receives, the exception first raised inside the call (raw), the
\* value returned (NoneNum when it raised; 1 and 0 stand for True and
\* False), the connections it opened and left open, how its transaction
\* ended, and the position of the statement that failed (0: none).
Outcome(d, exc, raw, ret, conns, open, tx, at) ==
    [db |-> d, exc |-> exc, raw |-> raw, ret |-> ret, conns |-> conns,
     open |-> open, tx |-> tx, at |-> at]

\* A call stopped by validation, before get_db_connection.
Rejected(d) ==
    Outcome(d, handle_db_error(ValidationError), ValidationError, NoneNum, 0, 0, "none", 0)

\* try: execute; commit; return ... finally: conn.close() -- the shape of
\* every single-statement write.  r is the statement's result.
CommitOrClose(d, r, ret) ==
    IF r.exc = NoExc
    THEN Outcome(Commit(d, r.db), NoExc, NoExc, ret, 1, 0, "commit", 0)
    ELSE Outcome(CloseUncommitted(d, r.db), handle_db_error(r.exc), r.exc,
                 NoneNum, 1, 0, "discard", 1)

\* ---------------------------------------------------------------- customers
add_customer(d, name, phone, email) ==
    IF ~validate_customer_data(name, phone, email) THEN Rejected(d)
    ELSE CommitOrClose(d, SqlInsertCustomer(d, [name |-> name, phone |-> phone, email |-> email]),
                       NextId(d, "Customers"))

\* A call stopped before get_db_connection by an exception that is neither
\* a ValidationError nor a sqlite3 error.
Unexpected(d, e) == Outcome(d, handle_db_error(e), e, NoneNum, 0, 0, "none", 0)

\* Mutant: cursor.rowcount is not looked at after the UPDATE.
update_customer_ignores_rowcount(d, customer_id, name, phone, email) ==
    IF MissingId(customer_id) \/ ~validate_customer_data(name, phone, email) THEN Rejected(d)
    ELSE CommitOrClose(d, SqlUpdateCustomer(d, customer_id,
                                            [name |-> name, phone |-> phone, email |-> email]), 1)

update_customer(d, customer_id, name, phone, email) ==
    IF MissingId(customer_id) \/ ~validate_customer_data(name, phone, email) THEN Rejected(d)
    ELSE LET r == SqlUpdateCustomer(d, customer_id, [name |-> name, phone |-> phone, email |-> email])
         IN  IF r.exc = NoExc /\ customer_id \notin DOMAIN d.Customers
             THEN Outcome(Commit(d, r.db), handle_db_error(DatabaseError("not-found")),
                          DatabaseError("not-found"), NoneNum, 1, 0, "commit", 0)
             ELSE CommitOrClose(d, r, 1)

delete_customer(d, customer_id) ==
    IF MissingId(customer_id) THEN Rejected(d)
    ELSE CommitOrClose(d, SqlDeleteCustomer(d, customer_id),
                       IF customer_id \in DOMAIN d.Customers THEN 1 ELSE 0)

\* ----------------------------------------------------------------- products
add_product(d, name, category, purchase_price, selling_price, initial_stock) ==
    IF ~validate_product_data(name, purchase_price, selling_price, initial_stock)
       \/ MissingStr(category)
    THEN Rejected(d)
    ELSE CommitOrClose(d,
            SqlInsertProduct(d, [name |-> name, category |-> category,
                                 purchase_price |-> purchase_price,
                                 selling_price |-> selling_price,
                                 quantity_in_stock |-> initial_stock]),
            NextId(d, "Products"))

\* Mutant: the category is validated after the UPDATE was committed.
update_product_validates_category_late(d, product_id, name, category, purchase_price, selling_price) ==
    IF MissingId(product_id)
       \/ ~validate_product_data(name, purchase_price, selling_price, NoneNum)
    THEN Rejected(d)
    ELSE LET r == SqlUpdateProduct(d, product_id, name, category, purchase_price, selling_price)
         IN  IF r.exc = NoExc /\ MissingStr(category)
             THEN Outcome(Commit(d, r.db), handle_db_error(ValidationError), ValidationError,
                          NoneNum, 1, 0, "commit", 0)
             ELSE IF r.exc = NoExc /\ product_id \notin DOMAIN d.Products
             THEN Outcome(Commit(d, r.db), handle_db_error(DatabaseError("not-found")),
                          DatabaseError("not-found"), NoneNum, 1, 0, "commit", 0)
             ELSE CommitOrClose(d, r, 1)

update_product(d, product_id, name, category, purchase_price, selling_price) ==
    IF MissingId(product_id)
       \/ ~validate_product_data(name, purchase_price, selling_price, NoneNum)
       \/ MissingStr(category)
    THEN Rejected(d)
    ELSE LET r == SqlUpdateProduct(d, product_id, name, category, purchase_price, selling_price)
         IN  IF r.exc = NoExc /\ product_id \notin DOMAIN d.Products
             THEN Outcome(Commit(d, r.db), handle_db_error(DatabaseError("not-found")),
                          DatabaseError("not-found"), NoneNum, 1, 0, "commit", 0)
             ELSE CommitOrClose(d, r, 1)

delete_product(d, product_id) ==
    IF MissingId(product_id) THEN Rejected(d)
    ELSE CommitOrClose(d, SqlDeleteProduct(d, product_id),
                       IF product_id \in DOMAIN d.Products THEN 1 ELSE 0)

\* ---------------------------------------------------------------- purchases
MinQuantity == 1

add_purchase(d, product_id, quantity, cost_per_unit) ==
    IF MissingId(product_id)
       \/ ~validate_numeric(quantity, MinQuantity).ok
       \/ ~validate_numeric(cost_per_unit, 0).ok
    THEN Rejected(d)
    ELSE CommitOrClose(d,
            SqlInsertPurchase(d, [product_id |-> product_id,
                                  quantity |-> validate_numeric(quantity, MinQuantity).value,
                                  cost_per_unit |-> validate_numeric(cost_per_unit, 0).value]),
            NextId(d, "Purchases"))

\* -------------------------------------------------------------------- reads
\* get_product_by_id(product_id): the row, or None.  fault = 1: the storage
\* engine fails the SELECT; the finally clause closes the connection.
get_product_by_id(d, product_id, fault) ==
    IF MissingId(product_id) THEN Rejected(d)
    ELSE IF fault = 1
    THEN Outcome(d, handle_db_error(OperationalError), OperationalError, NoneNum, 1, 0, "none", 1)
    ELSE Outcome(d, NoExc, NoExc,
                 IF product_id \in DOMAIN d.Products THEN d.Products[product_id] ELSE NoneNum,
                 1, 0, "none", 0)

\* get_product_details_for_sale(product_id): name, price and stock, or None.
\* No validation.  conn.close() follows fetchone() inside the try block and
\* there is no finally clause: when the SELECT raises sqlite3.Error the
\* except clause returns None and the connection stays open.
get_product_details_for_sale(d, product_id, fault) ==
    IF fault = 1
    THEN Outcome(d, NoExc, OperationalError, NoneNum, 1, 1, "none", 1)
    ELSE Outcome(d, NoExc, NoExc,
                 IF product_id \in DOMAIN d.Products
                 THEN [name |-> d.Products[product_id].name,
                       price |-> d.Products[product_id].selling_price,
                       stock |-> d.Products[product_id].quantity_in_stock]
                 ELSE NoneNum,
                 1, 0, "none", 0)

\* get_sale_items(sale_id): the SaleItems rows of the sale joined with their
\* products.  get_sales_by_customer(customer_id): the Sales rows of the
\* customer.  Both validate the identifier, close the connection in a
\* finally clause and return the rows fetched (here: the set of rows keyed
\* by id, the ORDER BY left out; no row gives the empty list).
get_sale_items(d, sale_id) ==
    IF MissingId(sale_id) THEN Rejected(d)
    ELSE Outcome(d, NoExc, NoExc,
                 {[id |-> i, product_id |-> d.SaleItems[i].product_id,
                   product_name |-> d.Products[d.SaleItems[i].product_id].name,
                   quantity |-> d.SaleItems[i].quantity,
                   price_at_sale |-> d.SaleItems[i].price_at_sale] :
                     i \in {j \in DOMAIN d.SaleItems :
                              /\ d.SaleItems[j].sale_id = sale_id
                              /\ d.SaleItems[j].product_id \in DOMAIN d.Products}},
                 1, 0, "none", 0)

get_sales_by_customer(d, customer_id) ==
    IF MissingId(customer_id) THEN Rejected(d)
    ELSE Outcome(d, NoExc, NoExc,
                 {[id |-> s, total_amount |-> d.Sales[s].total_amount] :
                     s \in {x \in DOMAIN d.Sales : d.Sales[x].customer_id = customer_id}},
                 1, 0, "none", 0)

\* -------------------------------------------------------------------- reset
\* No database file (after os.remove).
NoFile == [exists |-> FALSE]

\* Mutant: the tables are dropped and created again.
initialize_database_recreates(file) == EmptyDb

\* initialize_database(): CREATE TABLE / TRIGGER / INDEX IF NOT EXISTS.  A
\* missing file becomes the empty database; in a file that has the tables
\* no table is touched and a trigger is created only if it is not there.
initialize_database(file) ==
    IF file = NoFile THEN EmptyDb
    ELSE [file EXCEPT !.triggers =
             @ \cup {"increase_stock_on_purchase", "decrease_stock_on_sale"}]

OSError == [type |-> "OSError", msg |-> "Permission denied"]

\* Mutant: the reset empties the tables and keeps the file, so that
\* sqlite_sequence keeps its counters.
dangerously_delete_all_data_keeps_file(d, fault) ==
    IF fault = 1
    THEN Outcome(d, handle_db_error(DatabaseError("Failed to delete all data: " \o OSError.msg)),
                 OSError, NoneNum, 1, 0, "none", 0)
    ELSE Outcome([EmptyDb EXCEPT !.seq = d.seq], NoExc, NoExc, 1, 2, 0, "commit", 0)

\* dangerously_delete_all_data(): the connection is opened and closed, the
\* file removed, initialize_database() run on no file (a second connection,
\* closed in its finally clause).  fault = 1: os.remove raises; the except
\* clause raises DatabaseError("Failed to delete all data: ...") and the
\* file is as it was.
dangerously_delete_all_data(d, fault) ==
    IF fault = 1
    THEN Outcome(d, handle_db_error(DatabaseError("Failed to delete all data: " \o OSError.msg)),
                 OSError, NoneNum, 1, 0, "none", 0)
    ELSE Outcome(initialize_database(NoFile), NoExc, NoExc, 1, 2, 0, "commit", 0)

\* -------------------------------------------------------------------- sales
\* An item of the list that is not a mapping: None.  (It has the three
\* keys, all None, so that sums over an item list are defined on it.)
NoneItem ==
    [product_id |-> NoneNum, quantity |-> NoneNum, price_at_sale |-> NoneNum,
     mapping |-> FALSE]

\* The three validations of one item in the first loop of add_sale; they
\* begin with item.get("product_id"), which only a mapping has.
ItemValid(item) ==
    /\ item # NoneItem
    /\ ~MissingId(item.product_id)
    /\ validate_numeric(item.quantity, MinQuantity).ok
    /\ validate_numeric(item.price_at_sale, 0).ok

\* The position of the first item the validation loop stops at, 0 if none.
FirstInvalid(sale_items) ==
    IF \A i \in 1..Len(sale_items) : ItemValid(sale_items[i]) THEN 0
    ELSE CHOOSE i \in 1..Len(sale_items) :
            /\ ~ItemValid(sale_items[i])
            /\ \A j \in 1..(i - 1) : ItemValid(sale_items[j])

\* Mutant: the total adds the prices and forgets the quantities.
RECURSIVE SaleTotalIgnoresQuantity(_)
SaleTotalIgnoresQuantity(sale_items) ==
    IF sale_items = << >> THEN 0
    ELSE validate_numeric(Head(sale_items).price_at_sale, 0).value
         + SaleTotalIgnoresQuantity(Tail(sale_items))

\* total_amount += item_qty * item_price, over the validated floats.
RECURSIVE SaleTotal(_)
SaleTotal(sale_items) ==
    IF sale_items = << >> THEN 0
    ELSE validate_numeric(Head(sale_items).quantity, MinQuantity).value
           * validate_numeric(Head(sale_items).price_at_sale, 0).value
         + SaleTotal(Tail(sale_items))

\* Mutant: an item whose insert fails is skipped and the loop goes on.
RECURSIVE InsertItemsSkipsFailed(_, _, _, _, _)
InsertItemsSkipsFailed(work, sale_id, sale_items, k, fault) ==
    IF k > Len(sale_items) THEN [exc |-> NoExc, db |-> work, at |-> 0]
    ELSE LET r == IF fault = k + 1 THEN Failed(OperationalError, work)
                  ELSE SqlInsertSaleItem(work,
                          [sale_id |-> sale_id,
                           product_id |-> sale_items[k].product_id,
                           quantity |-> sale_items[k].quantity,
                           price_at_sale |-> sale_items[k].price_at_sale])
         IN  InsertItemsSkipsFailed(r.db, sale_id, sale_items, k + 1, fault)

\* The second loop of add_sale from item k on: one INSERT INTO SaleItems per
\* item, with the item's own values; stops at the first statement that
\* raises.  fault = k + 1 makes the storage engine fail that statement.
RECURSIVE InsertItems(_, _, _, _, _)
InsertItems(work, sale_id, sale_items, k, fault) ==
    IF k > Len(sale_items) THEN [exc |-> NoExc, db |-> work, at |-> 0]
    ELSE LET r == IF fault = k + 1 THEN Failed(OperationalError, work)
                  ELSE SqlInsertSaleItem(work,
                          [sale_id |-> sale_id,
                           product_id |-> sale_items[k].product_id,
                           quantity |-> sale_items[k].quantity,
                           price_at_sale |-> sale_items[k].price_at_sale])
         IN  IF r.exc # NoExc THEN [exc |-> r.exc, db |-> r.db, at |-> k + 1]
             ELSE InsertItems(r.db, sale_id, sale_items, k + 1, fault)

\* except Exception as e: conn.rollback(); a ValidationError or
\* DatabaseError is re-raised, anything else becomes DatabaseError("Sale
\* recording failed: {e}"), the text of e kept in the message.
SaleFailure(e) ==
    IF e.type \in {"ValidationError", "DatabaseError"} THEN e
    ELSE DatabaseError("Sale recording failed: " \o e.msg)

\* Mutant: only a missing list is refused (`if sale_items is None`).
NoItemsOnlyNone(given, sale_items) == ~given

\* `if not sale_items`: no list, or an empty one.
NoItems(given, sale_items) == ~given \/ sale_items = << >>

\* add_sale(sale_items, customer_id).  given = FALSE is sale_items = None.
\* The first loop runs outside the try block: item.get on an item that is
\* not a mapping raises AttributeError, which leaves the function as it is.
\* Statement 1 is the INSERT INTO Sales, statement k + 1 the insert of item
\* k; fault names the statement the storage engine fails (0: none).
add_sale(d, given, sale_items, customer_id, fault) ==
    IF NoItems(given, sale_items) THEN Rejected(d)
    ELSE IF FirstInvalid(sale_items) # 0
    THEN IF sale_items[FirstInvalid(sale_items)] = NoneItem
         THEN Unexpected(d, AttributeError)
         ELSE Rejected(d)
    ELSE IF ~validate_numeric(SaleTotal(sale_items), 0).ok THEN Rejected(d)
    ELSE
      LET total_amount == SaleTotal(sale_items)
          s == IF fault = 1 THEN Failed(OperationalError, d)
               ELSE SqlInsertSale(d, customer_id, total_amount)
          sale_id == NextId(d, "Sales")
          r == IF s.exc # NoExc THEN [exc |-> s.exc, db |-> s.db, at |-> 1]
               ELSE InsertItems(s.db, sale_id, sale_items, 1, fault)
      IN  IF r.exc = NoExc
          THEN Outcome(Commit(d, r.db), NoExc, NoExc, sale_id, 1, 0, "commit", 0)
          ELSE Outcome(Rollback(d, r.db), handle_db_error(SaleFailure(r.exc)), r.exc,
                       NoneNum, 1, 0, "rollback", r.at)

\* ------------------------------------------------------------ state machine
\* db: the committed content of the database file.
\* initial: for every product ever added, the initial_stock it was added
\*   with (history, kept to state stock conservation).
\* last: the most recent call: its name, the database it was made on
\*   (before), the id of the row a product, customer or purchase call
\*   names, the quantity and the cost per unit of add_purchase, the item
\*   list of add_sale, the name given to a product, the phone and e-mail
\*   address given to a customer (in the customer-records machine), and
\*   its outcome.
\* session: the call in progress on each connection of the machine of
\*   interleaved writes (all idle in the other machines).
\* writer: the connection that holds the write lock of the database file
\*   (0: none).
VARIABLES db, initial, last, session, writer
vars == <<db, initial, last, session, writer>>

\* No transaction: the connection has run no statement yet.
NoTx == [active |-> FALSE]
Connections == 1..MaxConnections
Idle ==
    [pc |-> "idle", op |-> "", id |-> NoneNum, quantity |-> NoneNum, cost |-> NoneNum,
     items |-> << >>, stmt |-> 0, sale_id |-> NoneNum, work |-> NoTx]

Call(op, before, id, quantity, items, o) ==
    [op |-> op, before |-> before, id |-> id, quantity |-> quantity,
     items |-> items, cost |-> NoneNum, name |-> NoneStr, phone |-> NoneStr,
     email |-> NoneStr, exc |-> o.exc,
     raw |-> o.raw, ret |-> o.ret, conns |-> o.conns, open |-> o.open,
     tx |-> o.tx, at |-> o.at,
     foreign_keys |-> get_db_connection.foreign_keys]

\* Inputs.  Each write is offered well-formed arguments and, for every
\* validation of its handler, arguments that fail exactly that validation.
ProductRefs == {NoneNum} \cup (1..MaxProducts)
CustomerRefs == {NoneNum} \cup (1..MaxCustomers)

GoodProduct ==
    [name |-> "W", category |-> "c", purchase_price |-> 4, selling_price |-> 5,
     initial_stock |-> 0]
ValidProducts == {GoodProduct, [GoodProduct EXCEPT !.name = "V", !.initial_stock = 4]}
ProductInputs ==
    ValidProducts
    \cup {[GoodProduct EXCEPT !.name = ""], [GoodProduct EXCEPT !.category = ""],
          [GoodProduct EXCEPT !.purchase_price = -1],
          [GoodProduct EXCEPT !.selling_price = NoneNum],
          [GoodProduct EXCEPT !.initial_stock = -2],
          [GoodProduct EXCEPT !.initial_stock = 3],
          [GoodProduct EXCEPT !.name = "Z", !.initial_stock = NoneNum]}

GoodCustomer == [name |-> "n", phone |-> NoneStr, email |-> NoneStr]
CustomerInputs ==
    {GoodCustomer, [GoodCustomer EXCEPT !.name = ""], [GoodCustomer EXCEPT !.phone = "abc"],
     [GoodCustomer EXCEPT !.email = "not-an-email"]}

\* (quantity, cost_per_unit) of a purchase: 1.5 units at 4, then no
\* quantity, half a unit, a negative cost.
PurchaseInputs == {<<3, 4>>, <<NoneNum, 4>>, <<1, 4>>, <<2, -1>>}

\* Sale lines: two valid ones (1 unit of product 1 at 3, 1.5 units of
\* product 2 at 5), one for each of the three item validations, and None.
ValidLines ==
    {[product_id |-> 1, quantity |-> 2, price_at_sale |-> 3],
     [product_id |-> 2, quantity |-> 3, price_at_sale |-> 5]}
InvalidLines ==
    {[product_id |-> NoneNum, quantity |-> 2, price_at_sale |-> 3],
     [product_id |-> 1, quantity |-> 1, price_at_sale |-> 3],
     [product_id |-> 2, quantity |-> 2, price_at_sale |-> -1],
     NoneItem}
SeqsUpTo(S, n) == UNION {[1..m -> S] : m \in 0..n}
\* Lists of one repeated line: 1 unit of product 1 at 3, n times.
Repeated(n) == [i \in 1..n |-> [product_id |-> 1, quantity |-> 2, price_at_sale |-> 3]]
\* Every list of fewer than MaxItems valid lines, and the list of MaxItems
\* times the same line.
ValidLists == SeqsUpTo(ValidLines, MaxItems - 1) \cup {Repeated(MaxItems)}
\* Such a list followed by one invalid line: the only invalid item is the
\* last.
InvalidLists == {Append(Repeated(n), x) : n \in {0, MaxItems - 1}, x \in InvalidLines}

Init ==
    /\ db = initialize_database(NoFile)
    /\ initial = EmptyTable
    /\ session = [c \in Connections |-> Idle]
    /\ writer = 0
    /\ last = Call("initialize_database", EmptyDb, NoneNum, NoneNum, << >>,
                   Outcome(EmptyDb, NoExc, NoExc, NoneNum, 1, 0, "commit", 0))

\* The AUTOINCREMENT counters are capped: a call that would take one past
\* its bound is not made.  A counter the call leaves alone is not tested.
Capped(d, table, max) ==
    IF d.seq[table] = db.seq[table] THEN TRUE ELSE d.seq[table] <= max
WithinBounds(d) ==
    /\ Capped(d, "Customers", MaxCustomers)
    /\ Capped(d, "Products", MaxProducts)
    /\ Capped(d, "Purchases", MaxPurchases)
    /\ Capped(d, "Sales", MaxSales)

Done(op, id, quantity, items, o) ==
    /\ WithinBounds(o.db)
    /\ db' = o.db
    /\ last' = Call(op, db, id, quantity, items, o)
    /\ UNCHANGED <<session, writer>>

AddCustomer ==
    /\ \E c \in CustomerInputs :
          Done("add_customer", NoneNum, NoneNum, << >>, add_customer(db, c.name, c.phone, c.email))
    /\ UNCHANGED initial

UpdateCustomer ==
    /\ \E id \in CustomerRefs, c \in CustomerInputs :
          /\ (c # GoodCustomer => id = 1)
          /\ Done("update_customer", id, NoneNum, << >>, update_customer(db, id, c.name, c.phone, c.email))
    /\ UNCHANGED initial

DeleteCustomer ==
    /\ \E id \in CustomerRefs :
          Done("delete_customer", id, NoneNum, << >>, delete_customer(db, id))
    /\ UNCHANGED initial

AddProduct ==
    \E p \in ProductInputs :
       LET o == add_product(db, p.name, p.category, p.purchase_price, p.selling_price,
                            p.initial_stock)
       IN  /\ WithinBounds(o.db)
           /\ db' = o.db
           /\ last' = [Call("add_product", db, NoneNum, NoneNum, << >>, o) EXCEPT !.name = p.name]
           /\ UNCHANGED <<session, writer>>
           /\ initial' = IF o.exc = NoExc THEN Put(initial, o.ret, p.initial_stock)
                         ELSE initial

UpdateProduct ==
    /\ \E id \in ProductRefs, p \in {q \in ProductInputs : q.initial_stock \in {0, 4}} :
          /\ (p \notin ValidProducts => id = 1)
          /\ LET o == update_product(db, id, p.name, p.category, p.purchase_price,
                                     p.selling_price)
             IN  /\ WithinBounds(o.db)
                 /\ db' = o.db
                 /\ last' = [Call("update_product", db, id, NoneNum, << >>, o)
                               EXCEPT !.name = p.name]
    /\ UNCHANGED <<initial, session, writer>>

DeleteProduct ==
    /\ \E id \in ProductRefs :
          Done("delete_product", id, NoneNum, << >>, delete_product(db, id))
    /\ UNCHANGED initial

AddPurchase ==
    /\ \E id \in ProductRefs, qc \in PurchaseInputs :
          /\ (qc # <<3, 4>> => id = 1)
          /\ LET o == add_purchase(db, id, qc[1], qc[2]) IN
             /\ WithinBounds(o.db)
             /\ db' = o.db
             /\ last' = [Call("add_purchase", db, id, qc[1], << >>, o) EXCEPT !.cost = qc[2]]
    /\ UNCHANGED <<initial, session, writer>>

AddSale ==
    /\ \E items \in ValidLists, customer_id \in CustomerRefs :
          Done("add_sale", NoneNum, NoneNum, items, add_sale(db, TRUE, items, customer_id, 0))
    /\ UNCHANGED initial

\* add_sale with no list, or with a list that has an invalid last item.
AddSaleInvalid ==
    /\ \E given \in BOOLEAN, items \in InvalidLists \cup {<< >>} :
          /\ (~given => items = << >>)
          /\ Done("add_sale", NoneNum, NoneNum, items, add_sale(db, given, items, NoneNum, 0))
    /\ UNCHANGED initial

\* add_sale while the storage engine fails one of its statements.
AddSaleFault ==
    /\ \E fault \in 1..(MaxItems + 1) :
          Done("add_sale", NoneNum, NoneNum, Repeated(MaxItems),
               add_sale(db, TRUE, Repeated(MaxItems), NoneNum, fault))
    /\ UNCHANGED initial

\* The two reads of one product, with and without a storage error.
GetProductById ==
    /\ \E id \in ProductRefs, fault \in {0, 1} :
          /\ (fault = 1 => id = 1)
          /\ Done("get_product_by_id", id, NoneNum, << >>, get_product_by_id(db, id, fault))
    /\ UNCHANGED initial

GetProductDetailsForSale ==
    /\ \E id \in ProductRefs, fault \in {0, 1} :
          /\ (fault = 1 => id = 1)
          /\ Done("get_product_details_for_sale", id, NoneNum, << >>,
                  get_product_details_for_sale(db, id, fault))
    /\ UNCHANGED initial

\* The two list reads, for no identifier, an identifier that may have rows
\* and one that never has.
GetSaleItems ==
    /\ \E id \in {NoneNum} \cup (1..(MaxSales + 1)) :
          Done("get_sale_items", id, NoneNum, << >>, get_sale_items(db, id))
    /\ UNCHANGED initial

GetSalesByCustomer ==
    /\ \E id \in {NoneNum} \cup (1..(MaxCustomers + 1)) :
          Done("get_sales_by_customer", id, NoneNum, << >>, get_sales_by_customer(db, id))
    /\ UNCHANGED initial

\* initialize_database() on the existing file, as at a start of one of the
\* application's windows.
InitializeDatabase ==
    /\ Done("initialize_database", NoneNum, NoneNum, << >>,
            Outcome(initialize_database(db), NoExc, NoExc, NoneNum, 1, 0, "commit", 0))
    /\ UNCHANGED initial

\* The full reset, with and without os.remove failing.
DangerouslyDeleteAllData ==
    \E fault \in {0, 1} :
       LET o == dangerously_delete_all_data(db, fault)
       IN  /\ Done("dangerously_delete_all_data", NoneNum, NoneNum, << >>, o)
           /\ initial' = IF o.exc = NoExc THEN EmptyTable ELSE initial

Next ==
    \/ AddCustomer
    \/ UpdateCustomer
    \/ DeleteCustomer
    \/ AddProduct
    \/ UpdateProduct
    \/ DeleteProduct
    \/ AddPurchase
    \/ AddSale
    \/ AddSaleInvalid
    \/ AddSaleFault
    \/ GetProductById
    \/ GetProductDetailsForSale
    \/ GetSaleItems
    \/ GetSalesByCustomer
    \/ InitializeDatabase
    \/ DangerouslyDeleteAllData

Spec == Init /\ [][Next]_vars

\* ------------------------------------------- the customer and product records
\* A second state machine, over the same state, for what two customers are
\* needed for: the customers carry phones and e-mail addresses (as typed in
\* the customer form, where an empty field arrives as ""), and a sale has
\* one line.
ContactInputs ==
    {GoodCustomer,
     [name |-> "n", phone |-> "0555123456", email |-> NoneStr],
     [name |-> "m", phone |-> NoneStr, email |-> "a@b.dz"],
     [name |-> "e", phone |-> "", email |-> ""],
     [name |-> "", phone |-> NoneStr, email |-> NoneStr]}
ContactRefs == {NoneNum} \cup (1..MaxContacts)

AddContact ==
    /\ \E c \in ContactInputs :
          LET o == add_customer(db, c.name, c.phone, c.email) IN
          /\ o.db.seq.Customers <= MaxContacts
          /\ db' = o.db
          /\ last' = [Call("add_customer", db, NoneNum, NoneNum, << >>, o)
                        EXCEPT !.name = c.name, !.phone = c.phone, !.email = c.email]
    /\ UNCHANGED <<initial, session, writer>>

UpdateContact ==
    /\ \E id \in ContactRefs, c \in ContactInputs :
          LET o == update_customer(db, id, c.name, c.phone, c.email) IN
          /\ db' = o.db
          /\ last' = [Call("update_customer", db, id, NoneNum, << >>, o)
                        EXCEPT !.phone = c.phone, !.email = c.email]
    /\ UNCHANGED <<initial, session, writer>>

DeleteContact ==
    /\ \E id \in ContactRefs :
          Done("delete_customer", id, NoneNum, << >>, delete_customer(db, id))
    /\ UNCHANGED initial

SellOne ==
    /\ \E line \in ValidLines, customer_id \in ContactRefs :
          Done("add_sale", NoneNum, NoneNum, <<line>>, add_sale(db, TRUE, <<line>>, customer_id, 0))
    /\ UNCHANGED initial

NextRecords ==
    \/ AddContact
    \/ UpdateContact
    \/ DeleteContact
    \/ AddProduct
    \/ UpdateProduct
    \/ DeleteProduct
    \/ SellOne

SpecRecords == Init /\ [][NextRecords]_vars

\* ------------------------------------------------- the phone validator alone
\* validate_phone is a pure function of its argument.  This specification
\* draws the argument from PhoneInputs and applies the function once: the
\* record in `last` holds the argument and, after the call, the outcome.
\* An input is a prefix, then n digits, with one more character put after
\* the first k of them; the two strings below are added as they are.
Digit(i) == IF i % 2 = 1 THEN "0" ELSE "7"
DigitRun(n) == [i \in 1..n |-> Digit(i)]
Prefixes == {<< >>, <<"+">>, <<" ">>, <<"(">>, <<"a">>, <<"+", "+">>}
Inserted == {<< >>, <<"-">>, <<" ">>, <<"\t">>, <<")">>, <<"+">>, <<"a">>, <<".">>}
WrittenPhones ==
    {<<"1", "2", "3", "-", "4", "5", "6", "-", "7", "8", "9", "0">>,
     <<"a", "b", "c">>, <<" ", "\t">>, <<"-">>}
PhoneInputs ==
    {NoneChars} \cup WrittenPhones \cup
    UNION {{pre \o DigitRun(k) \o x \o [i \in 1..(n - k) |-> Digit(k + i)] :
                pre \in Prefixes, x \in Inserted, k \in 0..n} : n \in 0..MaxDigits}

PhoneCall(phone, returned, r) ==
    [op |-> "validate_phone", phone |-> phone, returned |-> returned,
     exc |-> IF r.ok THEN NoExc ELSE ValidationError, ret |-> r.value]

InitPhone ==
    /\ db = initialize_database(NoFile)
    /\ initial = EmptyTable
    /\ last \in {PhoneCall(p, FALSE, [ok |-> TRUE, value |-> NoneChars]) : p \in PhoneInputs}
    /\ session = [c \in Connections |-> Idle]
    /\ writer = 0

ValidatePhone ==
    /\ ~last.returned
    /\ last' = PhoneCall(last.phone, TRUE, validate_phone(last.phone))
    /\ UNCHANGED <<db, initial, session, writer>>

NextPhone == ValidatePhone

SpecPhone == InitPhone /\ [][NextPhone]_vars

\* -------------------------------------------------------- interleaved writes
\* Two connections, each making one add_sale or add_purchase call on product
\* 1, their statements interleaved.  A call is taken statement by
\* statement: get_db_connection (and BEGIN, which takes no lock), the
\* INSERT statements, conn.commit().  SQLite lets one connection write at a
\* time: the first INSERT of a transaction takes the write lock of the
\* file, commit and rollback release it.  A statement that finds the lock
\* taken waits (it is not enabled) or, when the busy timeout ends, raises
\* sqlite3.OperationalError("database is locked"); conn.commit() can raise
\* the same while the other connection is at a statement.  db is the
\* committed file; a transaction works on its own copy (work) until commit.
DatabaseLocked == [type |-> "OperationalError", msg |-> "database is locked"]

\* Mutant: the file has no write lock.
BlockedNever(holder, c) == FALSE

\* The write lock is held by another connection.
Blocked(holder, c) == holder \notin {0, c}

\* The initial stock of product 1 and the calls the connections make: a
\* sale of 1 or 2 lines of one unit, a purchase of 1 or 2 units.
InterleavedStocks == {0, 2, 4}
InterleavedCalls ==
    {[Idle EXCEPT !.pc = "open", !.op = "add_sale", !.items = Repeated(n)] : n \in 1..2}
    \cup {[Idle EXCEPT !.pc = "open", !.op = "add_purchase", !.id = 1, !.quantity = q,
                       !.cost = 4] : q \in {2, 4}}

Statements(s) == IF s.op = "add_sale" THEN 1 + Len(s.items) ELSE 1

\* What the transaction of s sees: the committed file and its own writes.
View(s) == IF s.work = NoTx THEN db ELSE s.work

\* The next statement of the call s, run on d.
Statement(s, d) ==
    IF s.op = "add_purchase"
    THEN SqlInsertPurchase(d, [product_id |-> s.id,
                               quantity |-> validate_numeric(s.quantity, MinQuantity).value,
                               cost_per_unit |-> validate_numeric(s.cost, 0).value])
    ELSE IF s.stmt = 0 THEN SqlInsertSale(d, NoneNum, SaleTotal(s.items))
    ELSE SqlInsertSaleItem(d, [sale_id |-> s.sale_id,
                               product_id |-> s.items[s.stmt].product_id,
                               quantity |-> s.items[s.stmt].quantity,
                               price_at_sale |-> s.items[s.stmt].price_at_sale])

\* The call s after its statement or its commit raised e: add_sale rolls
\* back and wraps e; add_purchase closes the connection in its finally
\* clause and the decorator classifies e.
Abandon(s, e) ==
    IF s.op = "add_sale"
    THEN Outcome(Rollback(db, View(s)), handle_db_error(SaleFailure(e)), e,
                 NoneNum, 1, 0, "rollback", s.stmt + 1)
    ELSE Outcome(CloseUncommitted(db, View(s)), handle_db_error(e), e,
                 NoneNum, 1, 0, "discard", s.stmt + 1)

InitInterleaved ==
    \E stock \in InterleavedStocks :
       LET o == add_product(EmptyDb, GoodProduct.name, GoodProduct.category,
                            GoodProduct.purchase_price, GoodProduct.selling_price, stock)
       IN  /\ db = o.db
           /\ initial = Put(EmptyTable, o.ret, stock)
           /\ last = [Call("add_product", EmptyDb, NoneNum, NoneNum, << >>, o)
                        EXCEPT !.name = GoodProduct.name]
           /\ session = [c \in Connections |-> Idle]
           /\ writer = 0

\* The call on connection c returns with outcome o.
Return(c, o) ==
    /\ db' = o.db
    /\ last' = [Call(session[c].op, db, session[c].id, session[c].quantity,
                     session[c].items, o) EXCEPT !.cost = session[c].cost]
    /\ session' = [session EXCEPT ![c] = [Idle EXCEPT !.pc = "done"]]
    /\ writer' = IF writer = c THEN 0 ELSE writer
    /\ UNCHANGED initial

\* Validation passed; the connection is open.
OpenCall(c) ==
    /\ session[c].pc = "idle"
    /\ \E call \in InterleavedCalls : session' = [session EXCEPT ![c] = call]
    /\ UNCHANGED <<db, initial, last, writer>>

\* The next INSERT of the call runs; if it raises, the call ends.
Execute(c) ==
    LET s == session[c]
        r == Statement(s, View(s))
    IN  /\ s.pc = "open"
        /\ s.stmt < Statements(s)
        /\ ~Blocked(writer, c)
        /\ IF r.exc = NoExc
           THEN /\ session' = [session EXCEPT ![c] =
                      [s EXCEPT !.work = r.db, !.stmt = @ + 1,
                                !.sale_id = IF s.op = "add_sale" /\ s.stmt = 0
                                            THEN r.db.seq.Sales ELSE @]]
                /\ writer' = c
                /\ UNCHANGED <<db, initial, last>>
           ELSE Return(c, Abandon(s, r.exc))

\* The next INSERT of the call gives up waiting for the lock.
ExecuteLocked(c) ==
    /\ session[c].pc = "open"
    /\ session[c].stmt < Statements(session[c])
    /\ Blocked(writer, c)
    /\ Return(c, Abandon(session[c], DatabaseLocked))

\* conn.commit() after the last statement; the call returns the new id.
CommitCall(c) ==
    LET s == session[c] IN
    /\ s.pc = "open"
    /\ s.stmt = Statements(s)
    /\ Return(c, Outcome(Commit(db, s.work), NoExc, NoExc,
                         IF s.op = "add_sale" THEN s.sale_id ELSE s.work.seq.Purchases,
                         1, 0, "commit", 0))

\* conn.commit() raises while the other connection is at a statement.
CommitLocked(c) ==
    /\ session[c].pc = "open"
    /\ session[c].stmt = Statements(session[c])
    /\ \E other \in Connections \ {c} : session[other].pc = "open"
    /\ Return(c, Abandon(session[c], DatabaseLocked))

NextInterleaved ==
    \E c \in Connections :
        \/ OpenCall(c)
        \/ Execute(c)
        \/ ExecuteLocked(c)
        \/ CommitCall(c)
        \/ CommitLocked(c)

SpecInterleaved == InitInterleaved /\ [][NextInterleaved]_vars

\* ================================================================== claims
RECURSIVE Sum(_, _)
Sum(f, ids) ==
    IF ids = {} THEN 0
    ELSE LET i == CHOOSE j \in ids : TRUE IN f[i] + Sum(f, ids \ {i})

Stock(d, p) == d.Products[p].quantity_in_stock
PurchasedQty(d, p) ==
    Sum([u \in DOMAIN d.Purchases |-> d.Purchases[u].quantity],
        {u \in DOMAIN d.Purchases : d.Purchases[u].product_id = p})
SoldQty(d, p) ==
    Sum([i \in DOMAIN d.SaleItems |-> d.SaleItems[i].quantity],
        {i \in DOMAIN d.SaleItems : d.SaleItems[i].product_id = p})
\* The quantity an item list asks of product p, over all its lines.
LineQty(items, p) ==
    Sum([i \in DOMAIN items |-> items[i].quantity],
        {i \in DOMAIN items : items[i].product_id = p})
\* The list asks of some existing product more than it has in stock.
Oversells(d, items) ==
    \E p \in DOMAIN d.Products : LineQty(items, p) > Stock(d, p)
SaleOk == last.op = "add_sale" /\ last.exc = NoExc
CheckFailed == IntegrityError("CHECK constraint failed")

\* C1: an add_sale call whose lines ask of a product more than its stock
\* persists nothing: the Sales and SaleItems tables are as before the call
\* and every product named in the list has the stock it had before.
C1_OversellingSalePersistsNothing ==
    (last.op = "add_sale" /\ Oversells(last.before, last.items)) =>
        /\ db.Sales = last.before.Sales
        /\ db.SaleItems = last.before.SaleItems
        /\ \A i \in DOMAIN last.items :
              LET p == last.items[i].product_id IN
              p \in DOMAIN last.before.Products =>
                 p \in DOMAIN db.Products /\ Stock(db, p) = Stock(last.before, p)

\* C1 witness: three lines of one product, each within stock, the third
\* taking the sum past it; the CHECK stopped the third insert.
C1_Witness ==
    /\ last.op = "add_sale" /\ last.raw = CheckFailed
    /\ Len(last.items) = 3 /\ last.at = 4
    /\ \A i \in 1..3 :
          /\ last.items[i].product_id = last.items[1].product_id
          /\ last.items[i].quantity <= Stock(last.before, last.items[1].product_id)
    /\ last.before.Sales # EmptyTable

\* C2: in every committed state every product's quantity_in_stock is >= 0.
C2_StockNeverNegative ==
    \A p \in DOMAIN db.Products : Stock(db, p) >= 0

\* C2 witness: a sale was refused by the stock check and a sale before it
\* had taken a product's stock to zero.
C2_Witness ==
    /\ last.op = "add_sale" /\ last.raw = CheckFailed
    /\ \E p \in DOMAIN db.Products : Stock(db, p) = 0 /\ SoldQty(db, p) > 0

\* C3: for every existing product, quantity_in_stock = the initial stock of
\* add_product + the quantities of its Purchase rows - the quantities of
\* its SaleItem rows.
C3_StockConservation ==
    \A p \in DOMAIN db.Products :
        Stock(db, p) = initial[p] + PurchasedQty(db, p) - SoldQty(db, p)

\* C3 witness: a product with a positive initial stock, a purchase and a
\* sale item.
C3_Witness ==
    \E p \in DOMAIN db.Products :
        initial[p] > 0 /\ PurchasedQty(db, p) > 0 /\ SoldQty(db, p) > 0

\* C4: after a successful add_sale every product's stock is its stock
\* before minus the quantities of the lines naming it (nothing for a
\* product no line names), and no product appeared or disappeared.
C4_SaleDecrementsExactly ==
    SaleOk =>
        /\ DOMAIN db.Products = DOMAIN last.before.Products
        /\ \A p \in DOMAIN db.Products :
              Stock(db, p) = Stock(last.before, p) - LineQty(last.items, p)

\* C4 witness: a committed sale with two lines of one product while another
\* product, which no line names, has stock.
C4_Witness ==
    /\ SaleOk
    /\ \E i, j \in DOMAIN last.items :
          i # j /\ last.items[i].product_id = last.items[j].product_id
    /\ \E p \in DOMAIN db.Products : LineQty(last.items, p) = 0 /\ Stock(db, p) > 0

\* C5: a successful add_purchase adds exactly one Purchase row, for the
\* product and quantity given, raises that product's stock by the quantity
\* and leaves every other product's stock as it was.
C5_PurchaseIncrementsExactly ==
    (last.op = "add_purchase" /\ last.exc = NoExc) =>
        /\ last.ret \notin DOMAIN last.before.Purchases
        /\ DOMAIN db.Purchases = DOMAIN last.before.Purchases \cup {last.ret}
        /\ \A u \in DOMAIN last.before.Purchases : db.Purchases[u] = last.before.Purchases[u]
        /\ db.Purchases[last.ret].product_id = last.id
        /\ db.Purchases[last.ret].quantity = last.quantity
        /\ DOMAIN db.Products = DOMAIN last.before.Products
        /\ \A p \in DOMAIN db.Products :
              Stock(db, p) = Stock(last.before, p) + (IF p = last.id THEN last.quantity ELSE 0)

\* C5 witness: a committed purchase while a second product has stock.
C5_Witness ==
    /\ last.op = "add_purchase" /\ last.exc = NoExc
    /\ \E p \in DOMAIN db.Products : p # last.id /\ Stock(db, p) > 0

\* C6: a successful add_sale adds one Sale row and, in list order, one
\* SaleItem row per line carrying the line's product, quantity and price;
\* the Sale row's total_amount is the sum of quantity * price_at_sale over
\* those rows; no other Sale or SaleItem row changes.
C6_SaleRowsAndTotalMatchItems ==
    SaleOk =>
        LET sid == last.ret
            n0 == last.before.seq.SaleItems
            new == (n0 + 1)..(n0 + Len(last.items))
        IN  /\ sid \notin DOMAIN last.before.Sales
            /\ DOMAIN db.Sales = DOMAIN last.before.Sales \cup {sid}
            /\ \A x \in DOMAIN last.before.Sales : db.Sales[x] = last.before.Sales[x]
            /\ new \cap DOMAIN last.before.SaleItems = {}
            /\ DOMAIN db.SaleItems = DOMAIN last.before.SaleItems \cup new
            /\ \A x \in DOMAIN last.before.SaleItems : db.SaleItems[x] = last.before.SaleItems[x]
            /\ \A i \in 1..Len(last.items) :
                  db.SaleItems[n0 + i] =
                     [sale_id |-> sid, product_id |-> last.items[i].product_id,
                      quantity |-> last.items[i].quantity,
                      price_at_sale |-> last.items[i].price_at_sale]
            /\ db.Sales[sid].total_amount =
                  Sum([x \in new |-> db.SaleItems[x].quantity * db.SaleItems[x].price_at_sale], new)

\* C6 witness: a committed sale with lines of different products, prices
\* and quantities.
C6_Witness ==
    /\ SaleOk
    /\ \E i, j \in DOMAIN last.items :
          /\ last.items[i].price_at_sale # last.items[j].price_at_sale
          /\ last.items[i].quantity # last.items[j].quantity
    /\ db.Sales[last.ret].total_amount > 0

\* C7: add_sale with an empty list or no list is refused with a validation
\* failure, leaves the database as it was and opens no connection and no
\* transaction.
C7_EmptySaleRefused ==
    (last.op = "add_sale" /\ last.items = << >>) =>
        /\ last.exc = ValidationError
        /\ db = last.before
        /\ last.conns = 0
        /\ last.tx = "none"

\* C7 witness: such a call on a database that has products in stock.
C7_Witness ==
    /\ last.op = "add_sale" /\ last.items = << >>
    /\ \E p \in DOMAIN db.Products : Stock(db, p) > 0

\* C8: a write that ends in a validation failure leaves the database as it
\* was before the call.
WriteOps ==
    {"add_customer", "update_customer", "delete_customer", "add_product",
     "update_product", "delete_product", "add_purchase", "add_sale"}
C8_ValidationFailureWritesNothing ==
    (last.op \in WriteOps /\ last.exc = ValidationError) => db = last.before

\* C8 witness: add_sale refused for its last item alone, after lines the
\* stock would have covered.
C8_Witness ==
    /\ last.op = "add_sale" /\ last.exc = ValidationError
    /\ Len(last.items) >= 2
    /\ FirstInvalid(last.items) = Len(last.items)
    /\ 1 \in DOMAIN last.before.Products
    /\ LineQty(SubSeq(last.items, 1, Len(last.items) - 1), 1) > 0
    /\ LineQty(SubSeq(last.items, 1, Len(last.items) - 1), 1) <= Stock(last.before, 1)

\* C9: when a statement of add_sale fails after validation passed (the
\* storage engine raised, or a line names a product that does not exist),
\* the database is as before the call, the transaction was rolled back and
\* the caller receives a DatabaseError.
StatementFailed ==
    \/ last.raw.type \in {"IntegrityError", "OperationalError"}
    \/ /\ last.items # << >>
       /\ FirstInvalid(last.items) = 0
       /\ \E i \in DOMAIN last.items :
             last.items[i].product_id \notin DOMAIN last.before.Products
C9_FailedInsertRollsBackAll ==
    (last.op = "add_sale" /\ StatementFailed) =>
        /\ db = last.before
        /\ last.tx = "rollback"
        /\ last.exc.type = "DatabaseError"

\* C9 witness: the foreign key stopped the insert of a later line, after
\* the Sale row and an earlier line had been written.
C9_Witness ==
    /\ last.op = "add_sale"
    /\ last.raw = IntegrityError("FOREIGN KEY constraint failed")
    /\ last.at >= 3
    /\ last.items[1].product_id \in DOMAIN last.before.Products

C11_DeleteCustomerKeepsSales ==
    (/\ last.op = "delete_customer"
     /\ last.id \in DOMAIN last.before.Customers
     /\ \E s \in DOMAIN last.before.Sales : last.before.Sales[s].customer_id = last.id)
    => /\ last.exc = NoExc
       /\ last.ret = 1
       /\ last.id \notin DOMAIN db.Customers
       /\ DOMAIN db.Sales = DOMAIN last.before.Sales
       /\ \A s \in DOMAIN db.Sales :
             /\ db.Sales[s].total_amount = last.before.Sales[s].total_amount
             /\ db.Sales[s].customer_id =
                   IF last.before.Sales[s].customer_id = last.id THEN NoneNum
                   ELSE last.before.Sales[s].customer_id
       /\ db.SaleItems = last.before.SaleItems
       /\ db.Products = last.before.Products

\* C11 witness: the customer of a sale with items was deleted and the sale
\* is there without a customer.
C11_Witness ==
    /\ last.op = "delete_customer" /\ last.exc = NoExc
    /\ \E s \in DOMAIN db.Sales :
          /\ last.before.Sales[s].customer_id = last.id
          /\ db.Sales[s].customer_id = NoneNum
          /\ \E i \in DOMAIN db.SaleItems : db.SaleItems[i].sale_id = s

\* C12: an add_sale call refused because it would take a stock below zero
\* (the CHECK on quantity_in_stock failed one of its inserts) reaches the
\* caller as the constraint-violated persistence failure, the one
\* handle_db_error gives a failed CHECK.
C12_OversellIsConstraintViolated ==
    (last.op = "add_sale" /\ last.raw = CheckFailed /\ Oversells(last.before, last.items))
    => last.exc = handle_db_error(CheckFailed)

\* C13: add_purchase ends in a validation failure and leaves the database
\* (the Purchases rows, every stock) as it was whenever the product
\* reference is missing, the quantity is not a whole number >= 1, or the
\* cost per unit is not a number >= 0.
WholeAtLeastOne(q) == q # NoneNum /\ q % Unit = 0 /\ q >= Unit
C13_PurchaseArgumentsValidated ==
    (/\ last.op = "add_purchase"
     /\ \/ MissingId(last.id)
        \/ ~WholeAtLeastOne(last.quantity)
        \/ last.cost = NoneNum
        \/ last.cost < 0)
    => /\ last.exc = ValidationError
       /\ db = last.before

\* C14: for update_customer, update_product, delete_customer and
\* delete_product, what the caller receives (the exception, or the value
\* returned) tells which of these happened: the target does not exist, a
\* validation failed, a constraint was violated, or the call succeeded; in
\* the first three the database is as before the call.
CrudOps == {"update_customer", "update_product", "delete_customer", "delete_product"}
\* What happened, from the arguments and the database the call was made on.
CrudCase ==
    LET target == IF last.op \in {"update_customer", "delete_customer"}
                  THEN last.before.Customers ELSE last.before.Products
    IN  IF last.raw = ValidationError THEN "validation-failed"
        ELSE IF last.raw.type = "IntegrityError" THEN "constraint-violated"
        ELSE IF last.id \notin DOMAIN target THEN "not-found"
        ELSE "success"
\* What a caller reads from the exception raised and the value returned.
CrudReport(exc, ret) ==
    IF exc.type = "ValidationError" THEN "validation-failed"
    ELSE IF exc \in {DatabaseError("duplicate-entry"), DatabaseError("referenced-elsewhere"),
                     DatabaseError("constraint-violated")}
    THEN "constraint-violated"
    ELSE IF exc = DatabaseError("not-found") THEN "not-found"
    ELSE IF exc = NoExc /\ ret = 0 THEN "not-found"
    ELSE IF exc = NoExc /\ ret = 1 THEN "success"
    ELSE "other"
NameTaken(d, except) ==
    \E p \in DOMAIN d.Products \ except : d.Products[p].name = last.name
ContactTaken(d, except) ==
    \E c \in DOMAIN d.Customers \ except :
        \/ last.phone # NoneStr /\ d.Customers[c].phone = last.phone
        \/ last.email # NoneStr /\ d.Customers[c].email = last.email
WouldDuplicate ==
    /\ last.raw # ValidationError
    /\ \/ last.op = "add_product" /\ NameTaken(last.before, {})
       \/ /\ last.op = "update_product"
          /\ last.id \in DOMAIN last.before.Products
          /\ NameTaken(last.before, {last.id})
       \/ last.op = "add_customer" /\ ContactTaken(last.before, {})
       \/ /\ last.op = "update_customer"
          /\ last.id \in DOMAIN last.before.Customers
          /\ ContactTaken(last.before, {last.id})
C15_DuplicatesRefused ==
    /\ WouldDuplicate => (last.exc = DatabaseError("duplicate-entry") /\ db = last.before)
    /\ \A p, q \in DOMAIN db.Products :
          p # q => db.Products[p].name # db.Products[q].name
    /\ \A c, e \in DOMAIN db.Customers :
          c # e => /\ db.Customers[c].phone # NoneStr => db.Customers[c].phone # db.Customers[e].phone
                   /\ db.Customers[c].email # NoneStr => db.Customers[c].email # db.Customers[e].email

\* C15 witness: add_customer refused for an e-mail address another customer
\* has, the phone being absent in both, while two products exist.
C15_Witness ==
    /\ last.op = "add_customer"
    /\ last.exc = DatabaseError("duplicate-entry")
    /\ last.phone = NoneStr
    /\ last.email \in ValidEmails
    /\ Cardinality(DOMAIN db.Products) = 2

\* C16: after a successful dangerously_delete_all_data the database is as
\* on a first run, whatever it held before: the five tables are empty,
\* both stock triggers exist, and every AUTOINCREMENT counter is back at
\* zero, so that the next row of each table gets id 1.
Tables == {"Customers", "Products", "Purchases", "Sales", "SaleItems"}
C16_ResetGivesFirstRunState ==
    (last.op = "dangerously_delete_all_data" /\ last.exc = NoExc) =>
        /\ \A t \in Tables : db[t] = EmptyTable /\ NextId(db, t) = 1
        /\ db.triggers = {"increase_stock_on_purchase", "decrease_stock_on_sale"}
        /\ db = initialize_database(NoFile)

\* C16 witness: the reset of a database that held a customer, products, a
\* purchase and a sale.
C16_Witness ==
    /\ last.op = "dangerously_delete_all_data" /\ last.exc = NoExc
    /\ \A t \in Tables : last.before[t] # EmptyTable /\ last.before.seq[t] > 0

\* C17: every call of the data-access module has released, when it returns
\* or raises, every connection it opened: none is left open, on any exit
\* path, a failed statement included.
C17_ConnectionsReleased == last.open = 0

\* C18: whatever a decorated data-access call raises to its caller is a
\* ValidationError or a DatabaseError: no exception of another kind leaves
\* the decorator.
C18_OnlyValidationOrDatabaseError ==
    last.exc.type \in {"none", "ValidationError", "DatabaseError"}

\* The SaleItems rows of a sale.
ItemsOf(d, s) == {i \in DOMAIN d.SaleItems : d.SaleItems[i].sale_id = s}

\* C19: in every state every Sale's total_amount is the sum of quantity *
\* price_at_sale over the SaleItems rows that reference it.
C19_TotalMatchesItems ==
    \A s \in DOMAIN db.Sales :
        db.Sales[s].total_amount =
            Sum([i \in ItemsOf(db, s) |-> db.SaleItems[i].quantity * db.SaleItems[i].price_at_sale],
                ItemsOf(db, s))

\* C19 witness: a sale of several lines whose customer was deleted, when
\* the deletion of one of its products has just been refused.
C19_Witness ==
    /\ last.op = "delete_product"
    /\ last.exc = DatabaseError("referenced-elsewhere")
    /\ db.Customers = EmptyTable /\ db.seq.Customers > 0
    /\ \E s \in DOMAIN db.Sales :
          /\ db.Sales[s].customer_id = NoneNum
          /\ Cardinality(ItemsOf(db, s)) >= 2
          /\ db.Sales[s].total_amount > 0

\* C20: in every state every Sale has at least one SaleItem and every
\* SaleItem references a Sale that exists; and a call leaves the SaleItems
\* of every Sale it keeps as they were, adds a Sale only with its items and
\* removes a Sale only with all of them.
C20_SaleOwnsItems ==
    /\ \A s \in DOMAIN db.Sales : ItemsOf(db, s) # {}
    /\ \A i \in DOMAIN db.SaleItems : db.SaleItems[i].sale_id \in DOMAIN db.Sales
    /\ \A s \in DOMAIN last.before.Sales :
          IF s \in DOMAIN db.Sales
          THEN /\ ItemsOf(db, s) = ItemsOf(last.before, s)
               /\ \A i \in ItemsOf(db, s) : db.SaleItems[i] = last.before.SaleItems[i]
          ELSE ItemsOf(db, s) = {}

\* C20 witness: a sale with items is there, and an add_sale that had
\* written its Sale row and an item was rolled back.
C20_Witness ==
    /\ last.op = "add_sale" /\ last.tx = "rollback" /\ last.at >= 3
    /\ \E s \in DOMAIN db.Sales : Cardinality(ItemsOf(db, s)) >= 2

\* --------------------------------------------------------------------- C21
Blank(s) == \A i \in 1..Len(s) : s[i] \in Whitespace
RECURSIVE Without(_, _)
Without(s, removed) ==
    IF s = << >> THEN << >>
    ELSE IF Head(s) \in removed THEN Without(Tail(s), removed)
    ELSE <<Head(s)>> \o Without(Tail(s), removed)
PlusAndDigits(s) ==
    \E n \in 8..15 :
        \/ Len(s) = n /\ \A i \in 1..n : s[i] \in AsciiDigits
        \/ Len(s) = n + 1 /\ s[1] = "+" /\ \A i \in 2..(n + 1) : s[i] \in AsciiDigits
PhoneVerdict(removed) ==
    last.op = "validate_phone" /\ last.returned =>
        IF last.phone = NoneChars \/ Blank(last.phone)
        THEN last.exc = NoExc /\ last.ret = last.phone
        ELSE /\ last.exc = NoExc <=> PlusAndDigits(Without(last.phone, removed))
             /\ last.exc # NoExc => last.exc = ValidationError
             /\ last.exc = NoExc => last.ret = last.phone

\* C21 (as stated): validate_phone accepts None, "" and whitespace-only
\* input; any other input succeeds exactly when the string left after
\* removing the space character, hyphens and parentheses is an optional
\* leading + followed by 8 to 15 digits, and a success returns the input
\* unchanged.  Violated: a tab between the digits is removed as well.
C21_SpacesHyphensParenthesesRemoved == PhoneVerdict({" ", "-", "(", ")"})

\* C21 (amended): validate_phone accepts None, "" and whitespace-only
\* input; any other input succeeds exactly when the string left after
\* removing every whitespace character, hyphens and parentheses is an
\* optional leading + followed by 8 to 15 digits; a failure is a validation
\* failure and a success returns the input unchanged.
C21_PhoneAcceptedIffCleanedMatches == PhoneVerdict(Whitespace \cup {"-", "(", ")"})

\* C21 witness: "123-456-7890" was accepted and returned as given.
C21_Witness ==
    /\ last.op = "validate_phone" /\ last.returned
    /\ last.phone = <<"1", "2", "3", "-", "4", "5", "6", "-", "7", "8", "9", "0">>
    /\ last.exc = NoExc
    /\ last.ret = last.phone

\* --------------------------------------------------------------------- C22
ReferencesResolve(d) ==
    /\ \A u \in DOMAIN d.Purchases : d.Purchases[u].product_id \in DOMAIN d.Products
    /\ \A i \in DOMAIN d.SaleItems :
          /\ d.SaleItems[i].sale_id \in DOMAIN d.Sales
          /\ d.SaleItems[i].product_id \in DOMAIN d.Products
    /\ \A s \in DOMAIN d.Sales :
          d.Sales[s].customer_id = NoneNum \/ d.Sales[s].customer_id \in DOMAIN d.Customers

\* C22: in every reachable state every Purchase refers to an existing
\* Product, every SaleItem to an existing Sale and an existing Product, and
\* every Sale's customer is null or an existing Customer; the connections
\* an operation used had foreign-key enforcement switched on.
C22_ReferentialIntegrity ==
    /\ ReferencesResolve(db)
    /\ last.conns > 0 => last.foreign_keys

\* C22 witness: a purchase naming a product that does not exist was refused
\* by the foreign key while a sale with its items is stored.
C22_Witness ==
    /\ last.op = "add_purchase"
    /\ last.id \notin DOMAIN last.before.Products
    /\ last.exc = DatabaseError("referenced-elsewhere")
    /\ db.SaleItems # EmptyTable
    /\ db.Products # EmptyTable

\* --------------------------------------------------------------------- C23
SameStock(before, after, p) ==
    /\ p \in DOMAIN after.Products
    /\ after.Products[p].quantity_in_stock = before.Products[p].quantity_in_stock

\* C23: update_product, successful or failing, leaves the quantity_in_stock
\* of every product as it was; and a call other than add_purchase, add_sale
\* and the full reset leaves the stock of every product that exists before
\* and after it unchanged (add_product only sets the stock of the product it
\* creates).
C23_StockOnlyMovedByPurchaseAndSale ==
    /\ last.op = "update_product" =>
          \A p \in DOMAIN last.before.Products : SameStock(last.before, db, p)
    /\ last.op \notin {"add_purchase", "add_sale", "dangerously_delete_all_data",
                       "initialize_database"} =>
          \A p \in DOMAIN last.before.Products \cap DOMAIN db.Products :
              SameStock(last.before, db, p)

\* C23 witness: update_product renamed a product that has units in stock.
C23_Witness ==
    /\ last.op = "update_product"
    /\ last.exc = NoExc
    /\ last.before.Products[last.id].name # db.Products[last.id].name
    /\ db.Products[last.id].quantity_in_stock > 0

\* --------------------------------------------------------------------- C24
PurchasesOf(d, p) == {u \in DOMAIN d.Purchases : d.Purchases[u].product_id = p}

\* C24: delete_product on an existing product that no SaleItem refers to
\* succeeds; it removes the product and all Purchase rows of that product
\* and leaves every other row, and every counter, as it was.
C24_DeleteProductRemovesItsPurchases ==
    /\ last.op = "delete_product"
    /\ last.id \in DOMAIN last.before.Products
    /\ \A i \in DOMAIN last.before.SaleItems : last.before.SaleItems[i].product_id # last.id
    => /\ last.exc = NoExc
       /\ db = [last.before EXCEPT
                   !.Products = Drop(@, {last.id}),
                   !.Purchases = Drop(@, PurchasesOf(last.before, last.id))]

\* C24 witness: the deleted product had a purchase; another product, with a
\* sale of it, is stored and stays.
C24_Witness ==
    /\ last.op = "delete_product"
    /\ last.exc = NoExc
    /\ PurchasesOf(last.before, last.id) # {}
    /\ db.Purchases = EmptyTable
    /\ db.Products # EmptyTable
    /\ db.SaleItems # EmptyTable

\* --------------------------------------------------------------------- C25
\* C25: every add_sale call that opened a connection, and with it a
\* transaction, has ended the transaction when it returns: either it was
\* committed, the call succeeded and the sale and all its items are stored,
\* or it was rolled back, the call failed and the database is as before the
\* call; the connection is closed.
C25_SaleTransactionEnded ==
    last.op = "add_sale" /\ last.conns > 0 =>
        /\ last.open = 0
        /\ last.tx \in {"commit", "rollback"}
        /\ last.tx = "commit" =>
              /\ last.exc = NoExc
              /\ last.ret \in DOMAIN db.Sales \ DOMAIN last.before.Sales
              /\ Cardinality(ItemsOf(db, last.ret)) = Len(last.items)
        /\ last.tx = "rollback" =>
              /\ last.exc # NoExc
              /\ db = last.before

\* C25 witness: an add_sale of several items was rolled back at an item
\* insert after the Sales row and a first item had been inserted.
C25_Witness ==
    /\ last.op = "add_sale"
    /\ last.tx = "rollback"
    /\ last.at > 2
    /\ db = last.before
    /\ db.Products # EmptyTable

\* --------------------------------------------------------------------- C26
ReadOps ==
    {"get_product_by_id", "get_product_details_for_sale", "get_sale_items",
     "get_sales_by_customer"}

\* C26: a read leaves the database as it was; called without its
\* identifier it fails with a validation failure; otherwise it does not
\* fail for data that is absent: get_product_by_id and
\* get_product_details_for_sale return None for an id that does not exist,
\* get_sale_items and get_sales_by_customer return the empty list for an id
\* with no rows.  (Calls during which the storage engine fails are left
\* out.)
C26_ReadsReturnAbsentOrFailValidation ==
    last.op \in ReadOps /\ last.at = 0 =>
        /\ db = last.before
        /\ IF MissingId(last.id) THEN last.exc = ValidationError
           ELSE /\ last.exc = NoExc
                /\ (/\ last.op \in {"get_product_by_id", "get_product_details_for_sale"}
                    /\ last.id \notin DOMAIN db.Products) => last.ret = NoneNum
                /\ (last.op = "get_sale_items" /\ ItemsOf(db, last.id) = {}) => last.ret = {}
                /\ (/\ last.op = "get_sales_by_customer"
                    /\ \A s \in DOMAIN db.Sales : db.Sales[s].customer_id # last.id)
                   => last.ret = {}

\* --------------------------------------------------------------------- C27
\* C27: initialize_database on an existing database changes nothing: every
\* row of the five tables, every stock value, the counters and both
\* triggers are as before the call.
C27_InitializeIdempotent ==
    last.op = "initialize_database" =>
        /\ db = last.before
        /\ db.triggers = {"increase_stock_on_purchase", "decrease_stock_on_sale"}

\* C27 witness: initialize_database ran on a database that holds a customer,
\* a product with units in stock, a purchase and a sale with its items.
C27_Witness ==
    /\ last.op = "initialize_database"
    /\ db.Customers # EmptyTable
    /\ db.Purchases # EmptyTable
    /\ db.SaleItems # EmptyTable
    /\ \E p \in DOMAIN db.Products : db.Products[p].quantity_in_stock > 0

\* --------------------------------------------------------------------- C28
\* C28: add_customer with a valid name and neither phone nor e-mail address,
\* each passed as None or as the empty string, succeeds whatever customers
\* are stored.
C28_AbsentContactNeverCollides ==
    /\ last.op = "add_customer"
    /\ ~MissingStr(last.name)
    /\ last.phone \in {NoneStr, ""}
    /\ last.email \in {NoneStr, ""}
    => last.exc = NoExc

\* --------------------------------------------------------------------- C29
Whole(n) == n % Unit = 0

\* C29: in every reachable state every Purchase quantity, every SaleItem
\* quantity and every product's quantity_in_stock is a whole number.
C29_QuantitiesWhole ==
    /\ \A u \in DOMAIN db.Purchases : Whole(db.Purchases[u].quantity)
    /\ \A i \in DOMAIN db.SaleItems : Whole(db.SaleItems[i].quantity)
    /\ \A p \in DOMAIN db.Products : Whole(db.Products[p].quantity_in_stock)

\* --------------------------------------------------------------------- C30
\* C30: with two add_sale / add_purchase calls interleaved on separate
\* connections, in every committed state the stock of every product is at
\* least 0 and equals its initial stock plus the purchases minus the sale
\* items stored; a call that failed left the committed database as it was;
\* a call that succeeded added, to the database committed just before its
\* commit, its own rows and nothing else and moved the stock by exactly its
\* own quantities.
C30_NoLostStockUpdate ==
    /\ \A p \in DOMAIN db.Products :
          /\ Stock(db, p) >= 0
          /\ Stock(db, p) = initial[p] + PurchasedQty(db, p) - SoldQty(db, p)
    /\ last.op \in {"add_sale", "add_purchase"} /\ last.exc # NoExc => db = last.before
    /\ last.op = "add_purchase" /\ last.exc = NoExc =>
          /\ DOMAIN db.Purchases = DOMAIN last.before.Purchases \cup {last.ret}
          /\ last.ret \notin DOMAIN last.before.Purchases
          /\ db.Purchases[last.ret].quantity = last.quantity
          /\ \A u \in DOMAIN last.before.Purchases : db.Purchases[u] = last.before.Purchases[u]
          /\ db.Sales = last.before.Sales /\ db.SaleItems = last.before.SaleItems
          /\ Stock(db, last.id) = Stock(last.before, last.id) + last.quantity
    /\ last.op = "add_sale" /\ last.exc = NoExc =>
          /\ DOMAIN db.Sales = DOMAIN last.before.Sales \cup {last.ret}
          /\ last.ret \notin DOMAIN last.before.Sales
          /\ \A s \in DOMAIN last.before.Sales : db.Sales[s] = last.before.Sales[s]
          /\ Cardinality(ItemsOf(db, last.ret)) = Len(last.items)
          /\ \A i \in DOMAIN last.before.SaleItems : 
                i \in DOMAIN db.SaleItems /\ db.SaleItems[i] = last.before.SaleItems[i]
          /\ db.Purchases = last.before.Purchases
          /\ \A p \in DOMAIN db.Products :
                Stock(db, p) = Stock(last.before, p) - LineQty(last.items, p)

\* C30 witness: one connection is inside its add_sale transaction, the Sales
\* row and an item inserted and not committed, while the other connection
\* has an add_purchase open on the same product and waits for the lock.
C30_Witness ==
    \E a, b \in Connections :
        /\ session[a].pc = "open" /\ session[a].op = "add_sale" /\ session[a].stmt >= 2
        /\ writer = a
        /\ Stock(session[a].work, 1) < Stock(db, 1)
        /\ session[b].pc = "open" /\ session[b].op = "add_purchase" /\ session[b].id = 1
        /\ session[b].stmt = 0

====
